---- MODULE Spec2Model ----
(***************************************************************************)
(* A model of the book generator: BookGenerator.generate_book and its      *)
(* helpers (src/book_generator/generator.py), the data classes Book,       *)
(* Section and GenerationStatistics (src/book_generator/models.py) and the *)
(* entry point main (src/example.py).                                      *)
(*                                                                         *)
(* Representation of Python values:                                        *)
(*   str           the title completion, whose characters the program      *)
(*                 looks at (strip): the sequence of its code points,      *)
(*                 <<72, 105>> for 'Hi'; a sequence of pieces of text,     *)
(*                 <<"a","b">>, where the program only joins texts         *)
(*                 (contents, rendering, prompts); an atomic TLA+ string   *)
(*                 where it only passes the text along (outline keys and   *)
(*                 descriptions)                                           *)
(*   float         a non-negative integer-valued IEEE-754 double v, as the *)
(*                 pair <<hi, lo>> with v = hi * Limb + lo, 0 <= lo < Limb *)
(*   None (float)  the empty tuple <<>>                                    *)
(*   int           a TLA+ integer                                          *)
(*   dict          a sequence of <<key, value>> pairs with distinct keys,  *)
(*                 in insertion order                                      *)
(*   objects       records; "type" holds the class name                    *)
(***************************************************************************)
EXTENDS Integers, Sequences, FiniteSets, TLC

(***************************************************************************)
(* Python float arithmetic (models.py:46-50 declare the time fields float; *)
(* models.py:62-66 add them with +=).                                      *)
(***************************************************************************)
\* Significand width of a Python float (IEEE-754 binary64).
MantissaBits == 53

\* Radix of the two-limb representation of a float's value.
Limb == 2^30

NoneVal == <<>>

\* The float whose value is the small integer n.
FloatOf(n) == <<n \div Limb, n % Limb>>

\* The float 2^53 + n, for a small n that keeps it representable.
BigFloat(n) == <<2^(MantissaBits - 30), n>>

RECURSIVE BitLen(_)
BitLen(n) == IF n = 0 THEN 0 ELSE 1 + BitLen(n \div 2)

\* The exact (unrounded) sum of two values.
ExactSum(x, y) ==
    LET lo == x[2] + y[2]
    IN <<x[1] + y[1] + (lo \div Limb), lo % Limb>>

\* Number of low bits of v that do not fit a 53-bit significand.
DroppedBits(v) ==
    LET bits == IF v[1] = 0 THEN BitLen(v[2]) ELSE 30 + BitLen(v[1])
    IN IF bits > MantissaBits THEN bits - MantissaBits ELSE 0

\* Round to nearest, ties to even: what the hardware does to an exact sum.
RoundHalfEven(v) ==
    LET d == DroppedBits(v)
    IN IF d = 0 THEN v
       ELSE LET u    == 2^d
                r    == v[2] % u
                down == <<v[1], v[2] - r>>
                up   == ExactSum(down, <<0, u>>)
                odd  == ((v[2] \div u) % 2) = 1
            IN IF 2 * r < u THEN down
               ELSE IF 2 * r > u THEN up
               ELSE IF odd THEN up ELSE down

\* x + y on Python floats.
FloatAdd(x, y) == RoundHalfEven(ExactSum(x, y))

(***************************************************************************)
(* GenerationStatistics (models.py:43-66).                                 *)
(***************************************************************************)
default_model == "llama-3.3-70b-specdec"

\* GenerationStatistics(model_name=..., input_time=..., ...): the dataclass
\* constructor with its defaults of 0.
GenerationStatistics(it, ot, itok, otok, tt) ==
    [type          |-> "GenerationStatistics",
     model_name    |-> default_model,
     input_time    |-> it,
     output_time   |-> ot,
     input_tokens  |-> itok,
     output_tokens |-> otok,
     total_time    |-> tt]

ZeroStats == GenerationStatistics(FloatOf(0), FloatOf(0), 0, 0, FloatOf(0))

isinstance(x, cls) == x.type = cls

\* One "self.f += other.f" on a float field: a TypeError when either side
\* is None.
FloatIAdd(a, b) ==
    IF a = NoneVal \/ b = NoneVal
    THEN [raised |-> "TypeError", value |-> a]
    ELSE [raised |-> "none", value |-> FloatAdd(a, b)]

\* A mutation of the merge: a field is assigned, not summed.
AddAssigning(self, other) ==
    IF ~isinstance(other, "GenerationStatistics")
    THEN [raised |-> "TypeError", self |-> self]
    ELSE [raised |-> "none",
          self |-> [self EXCEPT !.input_time = other.input_time,
                                !.output_time = FloatAdd(@, other.output_time),
                                !.input_tokens = other.input_tokens,
                                !.output_tokens = @ + other.output_tokens,
                                !.total_time = FloatAdd(@, other.total_time)]]

\* Lines 62-66: the five fields are updated one after the other, so an
\* exception part-way leaves the earlier fields updated.
AddFields(self, other) ==
    LET r1 == FloatIAdd(self.input_time, other.input_time)
        s1 == [self EXCEPT !.input_time = r1.value]
        r2 == FloatIAdd(s1.output_time, other.output_time)
        s2 == [s1 EXCEPT !.output_time = r2.value]
        s3 == [s2 EXCEPT !.input_tokens = @ + other.input_tokens]
        s4 == [s3 EXCEPT !.output_tokens = @ + other.output_tokens]
        r5 == FloatIAdd(s4.total_time, other.total_time)
        s5 == [s4 EXCEPT !.total_time = r5.value]
    IN IF r1.raised # "none" THEN [raised |-> r1.raised, self |-> self]
       ELSE IF r2.raised # "none" THEN [raised |-> r2.raised, self |-> s1]
       ELSE IF r5.raised # "none" THEN [raised |-> r5.raised, self |-> s4]
       ELSE [raised |-> "none", self |-> s5]

\* A mutation of add: the type of the argument is not tested, so reading
\* the first field of a value of another type raises AttributeError.
AddWithoutTypeCheck(self, other) ==
    IF ~isinstance(other, "GenerationStatistics")
    THEN [raised |-> "AttributeError", self |-> self]
    ELSE AddFields(self, other)

\* A mutation of the merge: total_time is left as it was.
AddKeepingTotalTime(self, other) ==
    IF ~isinstance(other, "GenerationStatistics")
    THEN [raised |-> "TypeError", self |-> self]
    ELSE LET merged == AddFields(self, other)
         IN [merged EXCEPT !.self.total_time = self.total_time]

\* GenerationStatistics.add: TypeError for an argument of another type,
\* before any field is touched.
add(self, other) ==
    IF ~isinstance(other, "GenerationStatistics")
    THEN [raised |-> "TypeError", self |-> self]
    ELSE AddFields(self, other)

(***************************************************************************)
(* The outline: the text of the outline response, json.loads             *)
(* (generator.py:35) and _flatten_structure (generator.py:174-182).        *)
(*                                                                         *)
(* The response text is kept as its syntax tree: a JSON value is a record  *)
(* [t, s, members]; an object's members are its "key": value pairs in the  *)
(* order of the text, where a key may occur twice.  Text that is not JSON  *)
(* is JInvalid.                                                            *)
(***************************************************************************)
JInvalid == [t |-> "invalid", s |-> "", members |-> <<>>]
JString(s) == [t |-> "string", s |-> s, members |-> <<>>]
JNumber == [t |-> "number", s |-> "", members |-> <<>>]
JNull == [t |-> "null", s |-> "", members |-> <<>>]
JArray == [t |-> "array", s |-> "", members |-> <<>>]
JObject(members) == [t |-> "object", s |-> "", members |-> members]

\* Python values json.loads builds.
PyStr(s) == [type |-> "str", s |-> s, items |-> <<>>]
PyOther(type) == [type |-> type, s |-> "", items |-> <<>>]
PyDict(items) == [type |-> "dict", s |-> "", items |-> items]

DictKeys(d) == {d[i][1] : i \in 1..Len(d)}

\* d[k] for a key of d.
DictGet(d, k) == d[CHOOSE i \in 1..Len(d) : d[i][1] = k][2]

\* d[k] = v on a Python dict: a new key goes to the end, an old key keeps
\* its place and takes the new value.
DictSet(d, k, v) ==
    IF k \in DictKeys(d)
    THEN [i \in 1..Len(d) |-> IF d[i][1] = k THEN <<k, v>> ELSE d[i]]
    ELSE Append(d, <<k, v>>)

RECURSIVE Decode(_)
RECURSIVE DecodeMembers(_, _)
\* The dict of an object's members, decoded left to right.
DecodeMembers(members, d) ==
    IF members = <<>> THEN d
    ELSE DecodeMembers(Tail(members),
                       DictSet(d, Head(members)[1], Decode(Head(members)[2])))

\* The Python value of a JSON value.
Decode(j) ==
    CASE j.t = "string" -> PyStr(j.s)
      [] j.t = "number" -> PyOther("int")
      [] j.t = "null"   -> PyOther("NoneType")
      [] j.t = "array"  -> PyOther("list")
      [] j.t = "object" -> PyDict(DecodeMembers(j.members, <<>>))

\* json.loads(text): json.JSONDecodeError on text that is not JSON.
json_loads(text) ==
    IF text.t = "invalid"
    THEN [raised |-> "JSONDecodeError", value |-> PyOther("NoneType")]
    ELSE [raised |-> "none", value |-> Decode(text)]

\* A mutation of the flattening: the title of a nested object is emitted
\* as a leaf of its own before the object's leaves.
RECURSIVE FlattenItemsKeepingParents(_)
FlattenItemsKeepingParents(items) ==
    IF items = <<>> THEN <<>>
    ELSE LET title   == Head(items)[1]
             content == Head(items)[2]
             here == IF isinstance(content, "str") THEN <<<<title, content.s>>>>
                     ELSE IF isinstance(content, "dict")
                          THEN <<<<title, "">>>> \o FlattenItemsKeepingParents(content.items)
                          ELSE <<>>
         IN here \o FlattenItemsKeepingParents(Tail(items))

\* The loop of _flatten_structure over structure.items().
RECURSIVE FlattenItems(_)
FlattenItems(items) ==
    IF items = <<>> THEN <<>>
    ELSE LET title   == Head(items)[1]
             content == Head(items)[2]
             here == IF isinstance(content, "str") THEN <<<<title, content.s>>>>
                     ELSE IF isinstance(content, "dict")
                          THEN FlattenItems(content.items)
                          ELSE <<>>
         IN here \o FlattenItems(Tail(items))

\* A mutation of the flattening: a value that is not a dict has no leaves.
FlattenTolerant(structure) ==
    IF ~isinstance(structure, "dict")
    THEN [raised |-> "none", sections |-> <<>>]
    ELSE [raised |-> "none", sections |-> FlattenItems(structure.items)]

\* _flatten_structure(structure): structure.items() raises AttributeError
\* on a value that is not a dict.
_flatten_structure(structure) ==
    IF ~isinstance(structure, "dict")
    THEN [raised |-> "AttributeError", sections |-> <<>>]
    ELSE [raised |-> "none", sections |-> FlattenItems(structure.items)]

(***************************************************************************)
(* Book and Section (models.py:5-27).                                      *)
(***************************************************************************)
Section(title, content, subsections) ==
    [type |-> "Section", title |-> title, content |-> content,
     subsections |-> subsections]

Book(title, sections) == [type |-> "Book", title |-> title, sections |-> sections]

\* A local variable that has not been assigned yet.
Unbound == [type |-> "unbound"]

(***************************************************************************)
(* Text helpers.                                                           *)
(***************************************************************************)
\* The code points of the characters str.strip() removes (generator.py:80),
\* those for which str.isspace() holds: U+0009 to U+000D, U+001C to U+001F,
\* U+0020, U+0085, U+00A0, U+1680, U+2000 to U+200A, U+2028, U+2029, U+202F,
\* U+205F and U+3000.
Whitespace ==
    (9..13) \cup (28..32) \cup {133, 160, 5760} \cup (8192..8202)
    \cup {8232, 8233, 8239, 8287, 12288}

RECURSIVE LStrip(_)
LStrip(s) == IF s # <<>> /\ Head(s) \in Whitespace THEN LStrip(Tail(s)) ELSE s

RECURSIVE RStrip(_)
RStrip(s) ==
    IF s # <<>> /\ s[Len(s)] \in Whitespace
    THEN RStrip(SubSeq(s, 1, Len(s) - 1)) ELSE s

\* str.strip()
strip(s) == RStrip(LStrip(s))

\* bool(x) of a str or None: example.py:11 "if not api_key".
Truthy(x) == isinstance(x, "str") /\ x.s # ""

(***************************************************************************)
(* What the outside world can answer.                                      *)
(***************************************************************************)
\* Values of the environment variable GROQ_API_KEY: unset, empty, set.
Credentials == {PyOther("NoneType"), PyStr(""), PyStr("gsk")}

\* Texts of the title completion: 'T', ' T\n', '\tT\r\n' and 'T' between
\* U+2003 and U+3000.
TitleTexts == {<<84>>, <<32, 84, 10>>, <<9, 84, 13, 10>>, <<8195, 84, 12288>>}

\* completion.usage / x_groq.usage of a response.
Usage(pt, ct, ptok, ctok, tt) ==
    [prompt_time |-> pt, completion_time |-> ct, prompt_tokens |-> ptok,
     completion_tokens |-> ctok, total_time |-> tt]

\* The usage of the outline completion.
OutlineUsage == Usage(FloatOf(1), FloatOf(2), 10, 20, FloatOf(3))

\* Usage payloads of a section stream; the second has no completion_time.
SectionUsages ==
    {Usage(FloatOf(4), FloatOf(5), 1, 2, FloatOf(9)),
     Usage(FloatOf(4), NoneVal, 1, 2, FloatOf(9))}

\* chunk.x_groq: absent, present without usage, present with usage.
XGroqs ==
    {[present |-> FALSE, has_usage |-> FALSE, usage |-> OutlineUsage],
     [present |-> TRUE, has_usage |-> FALSE, usage |-> OutlineUsage]}
    \cup {[present |-> TRUE, has_usage |-> TRUE, usage |-> u] : u \in SectionUsages}

\* chunk.choices[0].delta.content: empty (or None), or a text fragment.
Fragments == {<<>>, <<"a">>, <<"b">>}

Chunks == [content : Fragments, x_groq : XGroqs]

\* Outline texts of a generation run.
ExampleOutline ==
    JObject(<<<<"A", JString("descA")>>,
              <<"B", JObject(<<<<"B1", JString("descB1")>>,
                               <<"B2", JString("descB2")>>>>)>>>>)

RunOutlines ==
    {JInvalid, JArray, JNumber, JNull, JString("descA"), JObject(<<>>),
     JObject(<<<<"A", JString("descA")>>>>),
     JObject(<<<<"A", JNumber>>>>),
     JObject(<<<<"A", JNull>>, <<"B", JString("descB")>>>>),
     JObject(<<<<"A", JString("descA")>>, <<"B", JObject(<<<<"A", JString("descB")>>>>)>>>>),
     JObject(<<<<"A", JString("descA")>>, <<"A", JString("descB")>>>>),
     ExampleOutline}

\* Chunks one run may read from its streams, over all streams.
MaxChunks == 3

(***************************************************************************)
(* State.                                                                  *)
(***************************************************************************)
VARIABLES
    main_pc,         \* example.py main: "idle", "construct", "raised", "library"
    api_key,         \* the credential given to BookGenerator / read by main
    groq_client,     \* self.groq_client: "unset", "client", "failed"
    pc,              \* where the generator of generate_book stands
    pulling,         \* the consumer is inside next() on the generator
    pulls,           \* how many times the consumer has called next()
    events,          \* what the generator has yielded so far
    requests,        \* the completion requests issued so far
    title,           \* generate_book's local "title"
    structure_stats, \* generate_book's local "structure_stats"
    structure,       \* generate_book's local "structure" (the outline text)
    book,            \* generate_book's local "book"
    total_stats,     \* generate_book's local "total_stats"
    todo,            \* the list the for loop of line 41 iterates over
    idx,             \* the position of that loop in todo
    section,         \* generate_book's local "section"
    stream,          \* the section stream: "none", "open", "closed"
    error,           \* the exception that ended the generator, or "none"
    chunks_read,     \* chunks read from the streams so far
    received,        \* per stream opened: what it has delivered so far
    call,            \* a function applied on its own: its name and arguments
    ret,             \* and its result
    acc,             \* a GenerationStatistics that records are merged into
    operands         \* the records still to be merged

run_vars ==
    <<main_pc, api_key, groq_client, pc, pulling, pulls, events, requests, title,
      structure_stats, structure, book, total_stats, todo, idx, section,
      stream, error, chunks_read, received>>

fn_vars == <<call, ret, acc, operands>>

vars == <<run_vars, fn_vars>>

NoCall == [fn |-> "none"]

\* An event the consumer receives: a str by value, an object by reference
\* (ref names the variable that holds it), with the value it had when it
\* was yielded and the position of the loop of line 41 at that moment
\* (0 outside the loop).
Event(type, ref, seen, leaf) ==
    [type |-> type, ref |-> ref, seen |-> seen, leaf |-> leaf]

Request(kind, streamed, section_title, description) ==
    [kind |-> kind, stream |-> streamed, title |-> section_title,
     description |-> description]

(***************************************************************************)
(* Before any code has run.                                                *)
(***************************************************************************)
Init ==
    /\ main_pc = "idle"
    /\ api_key = PyOther("NoneType")
    /\ groq_client = "unset"
    /\ pc = "nogen"
    /\ pulling = FALSE
    /\ pulls = 0
    /\ events = <<>>
    /\ requests = <<>>
    /\ title = <<>>
    /\ structure_stats = Unbound
    /\ structure = JInvalid
    /\ book = Unbound
    /\ total_stats = Unbound
    /\ todo = <<>>
    /\ idx = 0
    /\ section = Unbound
    /\ stream = "none"
    /\ error = "none"
    /\ chunks_read = 0
    /\ received = <<>>
    /\ call = NoCall
    /\ ret = NoCall
    /\ acc = Unbound
    /\ operands = <<>>

gen_vars ==
    <<pc, pulling, pulls, events, requests, title, structure_stats, structure, book,
      total_stats, todo, idx, section, stream, error, chunks_read, received>>

(***************************************************************************)
(* example.py main, lines 5-15: read the credential, refuse a missing one. *)
(***************************************************************************)
\* A mutation of main's test: only an unset variable is refused.
KeyPresentIfNotNone(k) == ~isinstance(k, "NoneType")

\* The test of example.py:11, "if not api_key", negated.
KeyPresent(k) == Truthy(k)

main_getenv ==
    /\ main_pc = "idle"
    /\ \E env \in Credentials :
          /\ api_key' = env
          /\ main_pc' = IF KeyPresent(env) THEN "construct" ELSE "raised"
    /\ UNCHANGED <<groq_client, gen_vars, fn_vars>>

(***************************************************************************)
(* BookGenerator.__init__ (generator.py:8-10), called by main with the     *)
(* credential it read (example.py:15) or by another caller with any.  The  *)
(* method hands the credential to Groq(api_key=...) without looking at it: *)
(* whether that constructor raises is the client library's decision.       *)
(***************************************************************************)
BookGenerator_init ==
    /\ groq_client = "unset"
    /\ \/ main_pc = "construct" /\ UNCHANGED <<main_pc, api_key>>
       \/ main_pc = "idle" /\ main_pc' = "library" /\ api_key' \in Credentials
    /\ groq_client' \in {"client", "failed"}
    /\ UNCHANGED <<gen_vars, fn_vars>>

\* generate_book(...) is called (example.py:18-24): a generator object is
\* made, none of its code runs.
call_generate_book ==
    /\ groq_client = "client"
    /\ pc = "nogen"
    /\ pc' = "start"
    /\ UNCHANGED <<main_pc, api_key, groq_client, pulling, pulls, events, requests,
                   title, structure_stats, structure, book, total_stats, todo,
                   idx, section, stream, error, chunks_read, received, fn_vars>>

(***************************************************************************)
(* The generator of generate_book (generator.py:12-62).  The consumer's    *)
(* next() resumes it; it runs to its next yield, to its end or to an       *)
(* exception, one action per stretch of code between two exchanges with    *)
(* the completion service.                                                 *)
(***************************************************************************)
\* A mutation of the yields: the event is handed over and the code runs
\* on without waiting for the consumer's next call.
YieldWithoutSuspending(ev, at) ==
    /\ events' = Append(events, ev)
    /\ pulling' = pulling
    /\ pc' = CASE at = "y_title"     -> "run_structure"
               [] at = "y_structure" -> "run_parse"
               [] at = "y_total"     -> "read"
               [] at = "y_book"      -> "return"

\* "yield ev": the generator is suspended at the yield named by at.
Yield(ev, at) ==
    /\ events' = Append(events, ev)
    /\ pulling' = FALSE
    /\ pc' = at

\* A mutation of the propagation: the exception is caught and the
\* generator goes on to line 62.
RaiseCaught(kind) ==
    /\ error' = kind
    /\ pc' = "y_book"
    /\ pulling' = FALSE

\* An exception leaves the generator and reaches the consumer.
Raise(kind) ==
    /\ error' = kind
    /\ pc' = "failed"
    /\ pulling' = FALSE

\* A mutation of the loop of lines 53-58: after a statistics event the
\* generator goes back to line 42 and opens a stream for the leaf again.
ResumePointReopening(at) ==
    CASE at = "start"       -> "run_title"
      [] at = "y_title"     -> "run_structure"
      [] at = "y_structure" -> "run_parse"
      [] at = "y_total"     -> "open"
      [] at = "y_book"      -> "return"

\* Where next() resumes a suspended generator.
ResumePoint(at) ==
    CASE at = "start"       -> "run_title"
      [] at = "y_title"     -> "run_structure"
      [] at = "y_structure" -> "run_parse"
      [] at = "y_total"     -> "read"
      [] at = "y_book"      -> "return"

\* The consumer calls next() (example.py:27, "for item in book_stream").
next_ ==
    /\ ~pulling
    /\ pc \in {"start", "y_title", "y_structure", "y_total", "y_book"}
    /\ pulling' = TRUE
    /\ pulls' = pulls + 1
    /\ pc' = ResumePoint(pc)
    /\ UNCHANGED <<main_pc, api_key, groq_client, events, requests, title,
                   structure_stats, structure, book, total_stats, todo, idx,
                   section, stream, error, chunks_read, received, fn_vars>>

\* The code points of 'Generated title: ', the constant part of line 26.
GeneratedTitle ==
    <<71, 101, 110, 101, 114, 97, 116, 101, 100,
      32, 116, 105, 116, 108, 101, 58, 32>>

\* A mutation of line 26: the bare title is yielded.
TitleProgressBare(t) == t

\* Line 26: f"Generated title: {title}"
TitleProgress(t) == GeneratedTitle \o t

\* Lines 25-26 and _generate_title (64-80): the title request, the trimmed
\* title, the progress string.
generate_title ==
    /\ pc = "run_title"
    /\ requests' = Append(requests, Request("title", FALSE, "", ""))
    /\ \/ /\ Raise("APIError")
          /\ UNCHANGED <<events, title>>
       \/ \E text \in TitleTexts :
             /\ title' = strip(text)
             /\ Yield(Event("str", "value", TitleProgress(strip(text)), 0), "y_title")
             /\ UNCHANGED error
    /\ UNCHANGED <<main_pc, api_key, groq_client, pulls, structure_stats, structure,
                   book, total_stats, todo, idx, section, stream, chunks_read,
                   received, fn_vars>>

\* GenerationStatistics(...) of a usage record (lines 114-121, 165-172).
StatsOfUsage(u) ==
    GenerationStatistics(u.prompt_time, u.completion_time, u.prompt_tokens,
                         u.completion_tokens, u.total_time)

\* Lines 29-32 and _generate_structure (82-123): the outline request, its
\* statistics and text.
generate_structure ==
    /\ pc = "run_structure"
    /\ requests' = Append(requests, Request("structure", FALSE, "", ""))
    /\ \/ /\ Raise("APIError")
          /\ UNCHANGED <<events, structure_stats, structure>>
       \/ \E text \in RunOutlines :
             /\ structure_stats' = StatsOfUsage(OutlineUsage)
             /\ structure' = text
             /\ Yield(Event("GenerationStatistics", "structure_stats",
                            StatsOfUsage(OutlineUsage), 0), "y_structure")
             /\ UNCHANGED error
    /\ UNCHANGED <<main_pc, api_key, groq_client, pulls, title, book, total_stats,
                   todo, idx, section, stream, chunks_read, received, fn_vars>>

\* A mutation of line 39: the accumulator starts from the outline's
\* statistics.
InitialTotalFromOutline == structure_stats

\* Line 39: total_stats = GenerationStatistics(model_name=self.default_model)
InitialTotal == ZeroStats

\* Lines 35-41: parse the outline, make the Book and the accumulator,
\* flatten; with no leaf the loop body never runs and line 62 yields.
parse_structure ==
    /\ pc = "run_parse"
    /\ LET parsed == json_loads(structure)
           flat   == _flatten_structure(parsed.value)
           b      == Book(title, <<>>)
       IN IF parsed.raised # "none"
          THEN /\ Raise(parsed.raised)
               /\ UNCHANGED <<events, book, total_stats, todo, idx>>
          ELSE /\ total_stats' = InitialTotal
               /\ book' = b
               /\ IF flat.raised # "none"
                  THEN /\ Raise(flat.raised)
                       /\ UNCHANGED <<events, todo, idx>>
                  ELSE /\ todo' = flat.sections
                       /\ UNCHANGED error
                       /\ IF flat.sections = <<>>
                          THEN /\ Yield(Event("Book", "book", b, 0), "y_book")
                               /\ UNCHANGED idx
                          ELSE /\ idx' = 1
                               /\ pc' = "open"
                               /\ UNCHANGED <<events, pulling>>
    /\ UNCHANGED <<main_pc, api_key, groq_client, pulls, requests, title,
                   structure_stats, structure, section, stream, chunks_read,
                   received, fn_vars>>

\* A mutation of lines 42-53: the streamed request is issued a second
\* time before the stream is read.
open_stream_retrying ==
    /\ pc = "open"
    /\ LET leaf == todo[idx]
       IN /\ section' = Section(leaf[1], <<>>, <<>>)
          /\ requests' = requests \o <<Request("section", TRUE, leaf[1], leaf[2]),
                                        Request("section", TRUE, leaf[1], leaf[2])>>
          /\ \/ /\ Raise("APIError")
                /\ UNCHANGED <<stream, received>>
             \/ /\ stream' = "open"
                /\ received' = Append(received,
                       [title |-> leaf[1], description |-> leaf[2],
                        text |-> <<>>, usages |-> <<>>, drained |-> FALSE])
                /\ pc' = "read"
                /\ UNCHANGED <<error, pulling>>
    /\ UNCHANGED <<main_pc, api_key, groq_client, pulls, events, title,
                   structure_stats, structure, book, total_stats, todo, idx,
                   chunks_read, fn_vars>>

\* Lines 42-53 for the leaf todo[idx], up to the streamed request of
\* _generate_section (134-156), which the first next() of the for loop of
\* line 53 issues.
open_stream ==
    /\ pc = "open"
    /\ LET leaf == todo[idx]
       IN /\ section' = Section(leaf[1], <<>>, <<>>)
          /\ requests' = Append(requests, Request("section", TRUE, leaf[1], leaf[2]))
          /\ \/ /\ Raise("APIError")
                /\ UNCHANGED <<stream, received>>
             \/ /\ stream' = "open"
                /\ received' = Append(received,
                       [title |-> leaf[1], description |-> leaf[2],
                        text |-> <<>>, usages |-> <<>>, drained |-> FALSE])
                /\ pc' = "read"
                /\ UNCHANGED <<error, pulling>>
    /\ UNCHANGED <<main_pc, api_key, groq_client, pulls, events, title,
                   structure_stats, structure, book, total_stats, todo, idx,
                   chunks_read, fn_vars>>

\* A mutation of line 60: sections are kept in a list, one per leaf.
StoreSectionAppending(sections, sec) == Append(sections, <<sec.title, sec>>)

\* Line 60: book.sections[section_title] = section
StoreSection(sections, sec) == DictSet(sections, sec.title, sec)

\* A mutation of line 62: "yield book" is indented into the loop, so the
\* Book is yielded when the first leaf is done.
end_of_stream_yielding_in_loop ==
    /\ pc = "read"
    /\ stream' = "closed"
    /\ received' = [received EXCEPT ![Len(received)].drained = TRUE]
    /\ LET b == [book EXCEPT !.sections = DictSet(@, section.title, section)]
       IN /\ book' = b
          /\ Yield(Event("Book", "book", b, 0), "y_book")
          /\ UNCHANGED idx
    /\ UNCHANGED <<main_pc, api_key, groq_client, pulls, requests, title,
                   structure_stats, structure, total_stats, todo, section,
                   error, chunks_read, fn_vars>>

\* The stream of the current leaf is exhausted: lines 60 and 41, then
\* either the next leaf or line 62.
end_of_stream ==
    /\ pc = "read"
    /\ stream' = "closed"
    /\ received' = [received EXCEPT ![Len(received)].drained = TRUE]
    /\ LET b == [book EXCEPT !.sections = StoreSection(@, section)]
       IN /\ book' = b
          /\ IF idx < Len(todo)
             THEN /\ idx' = idx + 1
                  /\ pc' = "open"
                  /\ UNCHANGED <<events, pulling>>
             ELSE /\ Yield(Event("Book", "book", b, 0), "y_book")
                  /\ UNCHANGED idx
    /\ UNCHANGED <<main_pc, api_key, groq_client, pulls, requests, title,
                   structure_stats, structure, total_stats, todo, section,
                   error, chunks_read, fn_vars>>

\* Reading the stream raises.
stream_error ==
    /\ pc = "read"
    /\ stream' = "closed"
    /\ Raise("APIError")
    /\ UNCHANGED <<main_pc, api_key, groq_client, pulls, events, requests, title,
                   structure_stats, structure, book, total_stats, todo, idx,
                   section, chunks_read, received, fn_vars>>

\* A mutation of lines 161-163: a chunk whose x_groq carries no usage is
\* reported like one that does.
CarriesUsageAlways(x_groq) == x_groq.present

\* Lines 161-163: "if x_groq := chunk.x_groq" and "if not x_groq.usage".
CarriesUsage(x_groq) == x_groq.present /\ x_groq.has_usage

\* A mutation of line 58: the fragment is put in front of the content.
ConsumeTextPrepending(sec, fragment) ==
    IF fragment # <<>> THEN [sec EXCEPT !.content = fragment \o @] ELSE sec

\* Lines 159-160 and 58: a fragment that is not empty is yielded by
\* _generate_section and appended, "section.content += chunk".
ConsumeText(sec, fragment) ==
    IF fragment # <<>> THEN [sec EXCEPT !.content = @ \o fragment] ELSE sec

\* The stream delivers a chunk: lines 158-172 of _generate_section and
\* 53-58 of generate_book.  Its text, when not empty, is appended to the
\* section; its usage, when present, is merged and the accumulator yielded.
read_chunk ==
    /\ pc = "read"
    /\ chunks_read < MaxChunks
    /\ chunks_read' = chunks_read + 1
    /\ \E chunk \in Chunks :
          LET stats == StatsOfUsage(chunk.x_groq.usage)
              merged == add(total_stats, stats)
              usage == CarriesUsage(chunk.x_groq)
          IN /\ section' = ConsumeText(section, chunk.content)
             /\ received' = [received EXCEPT
                               ![Len(received)].text = @ \o chunk.content,
                               ![Len(received)].usages =
                                   IF chunk.x_groq.present /\ chunk.x_groq.has_usage
                                   THEN Append(@, chunk.x_groq.usage) ELSE @]
             /\ IF ~usage
                THEN UNCHANGED <<pc, pulling, events, error, total_stats>>
                ELSE /\ total_stats' = merged.self
                     /\ IF merged.raised # "none"
                        THEN Raise(merged.raised) /\ UNCHANGED events
                        ELSE /\ Yield(Event("GenerationStatistics", "total_stats",
                                            merged.self, idx), "y_total")
                             /\ UNCHANGED error
    /\ UNCHANGED <<main_pc, api_key, groq_client, pulls, requests, title,
                   structure_stats, structure, book, todo, idx, stream,
                   fn_vars>>

\* next() after the Book: the function body ends, StopIteration.
return ==
    /\ pc = "return"
    /\ pc' = "done"
    /\ pulling' = FALSE
    /\ UNCHANGED <<main_pc, api_key, groq_client, pulls, events, requests, title,
                   structure_stats, structure, book, total_stats, todo, idx,
                   section, stream, error, chunks_read, received, fn_vars>>

Next ==
    \/ main_getenv
    \/ BookGenerator_init
    \/ call_generate_book
    \/ next_
    \/ generate_title
    \/ generate_structure
    \/ parse_structure
    \/ open_stream
    \/ read_chunk
    \/ end_of_stream
    \/ stream_error
    \/ return

Spec == Init /\ [][Next]_vars

(***************************************************************************)
(* Vocabulary of the properties.                                           *)
(***************************************************************************)
\* The run has yielded its last event without an exception.
Completed == pc \in {"y_book", "return", "done"}

NoBookEvent == \A i \in 1..Len(events) : events[i].type # "Book"

\* The usage payloads of the first k streams, in order of arrival.
RECURSIVE UsagesOfStreams(_)
UsagesOfStreams(k) ==
    IF k = 0 THEN <<>> ELSE UsagesOfStreams(k - 1) \o received[k].usages

RECURSIVE SumFloats(_)
SumFloats(fs) ==
    IF fs = <<>> THEN FloatOf(0)
    ELSE FloatAdd(SumFloats(SubSeq(fs, 1, Len(fs) - 1)), fs[Len(fs)])

RECURSIVE SumInts(_)
SumInts(ns) == IF ns = <<>> THEN 0 ELSE Head(ns) + SumInts(Tail(ns))

Column(records, f) == [i \in 1..Len(records) |-> records[i][f]]

\* The field-wise sum of a sequence of statistics records.
SumOfStats(records) ==
    GenerationStatistics(SumFloats(Column(records, "input_time")),
                         SumFloats(Column(records, "output_time")),
                         SumInts(Column(records, "input_tokens")),
                         SumInts(Column(records, "output_tokens")),
                         SumFloats(Column(records, "total_time")))

StatsOfUsages(us) == [i \in 1..Len(us) |-> StatsOfUsage(us[i])]

\* The request the run issues in i-th place.
ExpectedRequest(i) ==
    IF i = 1 THEN Request("title", FALSE, "", "")
    ELSE IF i = 2 THEN Request("structure", FALSE, "", "")
    ELSE Request("section", TRUE, todo[i - 2][1], todo[i - 2][2])

\* What the first event reads before the title: 'Generated title: ', as
\* code points.
Announcement ==
    <<71, 101, 110, 101, 114, 97, 116, 101, 100,
      32, 116, 105, 116, 108, 101, 58, 32>>

(***************************************************************************)
(* C1.  A run of generate_book that completes without an exception has     *)
(* yielded: one progress string announcing the title, one statistics event *)
(* for the outline request, then cumulative statistics events grouped by   *)
(* leaf in flattening order (none, one or several per leaf), then one Book *)
(* event, which is last: nothing follows it.                               *)
(***************************************************************************)
C1_EventOrder ==
    Completed =>
        LET n == Len(events)
        IN /\ n >= 3
           /\ events[1] = Event("str", "value", Announcement \o title, 0)
           /\ events[2] = Event("GenerationStatistics", "structure_stats",
                                structure_stats, 0)
           /\ events[n].type = "Book"
           /\ \A i \in 3..(n - 1) :
                 /\ events[i].type = "GenerationStatistics"
                 /\ events[i].ref = "total_stats"
                 /\ events[i].leaf \in 1..Len(todo)
           /\ \A i, j \in 3..(n - 1) : i < j => events[i].leaf <= events[j].leaf
           /\ Len(received) = Len(todo)
           /\ \A k \in 1..Len(todo) : received[k].title = todo[k][1]

\* A finished run over two leaves with several cumulative events.
C1_Witness ==
    /\ pc = "done"
    /\ Len(todo) >= 2
    /\ Len(events) >= 5
    /\ events[3].leaf = 1
    /\ events[4].leaf = 2

(***************************************************************************)
(* C2.  An exception in any step ends the run there: the generator is      *)
(* finished with the error handed to the consumer, the events are those    *)
(* yielded before the step, no Book event is among them, and from then on  *)
(* no event is yielded, no request is issued and nothing is retried: the   *)
(* requests issued are a prefix of title, outline, one per leaf.           *)
(***************************************************************************)
C2_ErrorsAreFatal ==
    /\ [](error # "none" =>
            /\ pc = "failed"
            /\ ~pulling
            /\ NoBookEvent
            /\ \A i \in 1..Len(requests) : requests[i] = ExpectedRequest(i))
    /\ [][(error' # "none") =>
            /\ events' = events
            /\ (error # "none" => /\ requests' = requests
                                  /\ pc' = pc
                                  /\ error' = error)]_vars

\* The merge of a usage payload raised after statistics had been yielded.
C2_Witness ==
    /\ error = "TypeError"
    /\ pc = "failed"
    /\ Len(events) >= 3
    /\ Len(requests) = 3

(***************************************************************************)
(* C3.  The Book of a completed run holds one section per flattened leaf,  *)
(* in flattening order, each with the leaf's title and the text its own    *)
(* stream delivered, also when two leaves have the same title.             *)
(***************************************************************************)
C3_OneSectionPerLeaf ==
    Completed =>
        /\ Len(book.sections) = Len(todo)
        /\ \A i \in 1..Len(todo) :
              /\ book.sections[i][2].title = todo[i][1]
              /\ book.sections[i][2].content = received[i].text

(***************************************************************************)
(* C4 as stated.  Every cumulative statistics event equals the field-wise  *)
(* sum of the outline request's statistics and of the usage payloads       *)
(* received from the section streams up to that event.                     *)
(***************************************************************************)
C4_TotalsIncludeOutline ==
    \A i \in 1..Len(events) :
        events[i].ref = "total_stats" =>
            events[i].seen =
                SumOfStats(<<structure_stats>> \o
                           StatsOfUsages(SubSeq(UsagesOfStreams(Len(received)), 1, i - 2)))

(***************************************************************************)
(* C4 as amended.  Every cumulative statistics event equals the field-wise *)
(* sum of the usage payloads received from the section streams up to that  *)
(* event; the outline request's statistics are not part of it.             *)
(***************************************************************************)
C4_TotalsAreSectionSums ==
    \A i \in 1..Len(events) :
        events[i].ref = "total_stats" =>
            events[i].seen =
                SumOfStats(StatsOfUsages(SubSeq(UsagesOfStreams(Len(received)), 1, i - 2)))

\* The second leaf's stream has delivered the run's third usage payload.
C4_Witness ==
    /\ pc = "y_total"
    /\ idx = 2
    /\ Len(events) = 5
    /\ Len(received[1].usages) >= 1
    /\ events[5].seen.input_tokens = 3 * events[3].seen.input_tokens
    /\ events[5].seen.total_time = FloatOf(27)

(***************************************************************************)
(* The flattening on its own: every outline text of at most MaxNodes JSON  *)
(* values, parsed (line 35) and flattened (line 41).                       *)
(***************************************************************************)
\* JSON values of an outline text, the root included.
MaxNodes == 4

OutlineKeys == {"A", "B"}

OutlineScalars == {JString("descA"), JString("descB"), JNumber, JArray}

RECURSIVE JsonValues(_)
RECURSIVE JsonMembers(_)
\* The member lists whose values hold at most k JSON values in all.
JsonMembers(k) ==
    IF k = 0 THEN {<<>>}
    ELSE {<<>>} \cup
         UNION {{<<<<key, v>>>> \o rest :
                    key \in OutlineKeys, v \in JsonValues(i), rest \in JsonMembers(k - i)} :
                i \in 1..k}

\* The JSON values made of at most n JSON values.
JsonValues(n) ==
    IF n = 0 THEN {}
    ELSE OutlineScalars \cup {JObject(m) : m \in JsonMembers(n - 1)}

FlattenInputs == JsonValues(MaxNodes) \cup {JInvalid, JNull, ExampleOutline}

Idle ==
    /\ main_pc = "idle"
    /\ api_key = PyOther("NoneType")
    /\ groq_client = "unset"
    /\ pc = "nogen"
    /\ pulling = FALSE
    /\ pulls = 0
    /\ events = <<>>
    /\ requests = <<>>
    /\ title = <<>>
    /\ structure_stats = Unbound
    /\ structure = JInvalid
    /\ book = Unbound
    /\ total_stats = Unbound
    /\ todo = <<>>
    /\ idx = 0
    /\ section = Unbound
    /\ stream = "none"
    /\ error = "none"
    /\ chunks_read = 0
    /\ received = <<>>

InitFlatten ==
    /\ Idle
    /\ call \in {[fn |-> "flatten", arg |-> text] : text \in FlattenInputs}
    /\ ret = NoCall
    /\ acc = Unbound
    /\ operands = <<>>

\* self._flatten_structure(json.loads(structure)), lines 35 and 41.
flatten_outline ==
    /\ call.fn = "flatten"
    /\ ret = NoCall
    /\ LET parsed == json_loads(call.arg)
           flat   == _flatten_structure(parsed.value)
       IN ret' = IF parsed.raised # "none"
                 THEN [fn |-> "flatten", raised |-> parsed.raised, value |-> <<>>]
                 ELSE [fn |-> "flatten", raised |-> flat.raised, value |-> flat.sections]
    /\ UNCHANGED <<run_vars, call, acc, operands>>

NextFlatten == flatten_outline

SpecFlatten == InitFlatten /\ [][NextFlatten]_vars

\* The positions of the string-valued entries of a dict, each as the path
\* of entry numbers that leads to it through the nested dicts.
RECURSIVE LeafPaths(_)
LeafPaths(items) ==
    UNION {IF items[i][2].type = "str" THEN {<<i>>}
           ELSE IF items[i][2].type = "dict"
                THEN {<<i>> \o q : q \in LeafPaths(items[i][2].items)}
                ELSE {} :
           i \in 1..Len(items)}

RECURSIVE EntryAt(_, _)
EntryAt(items, path) ==
    IF Len(path) = 1 THEN items[path[1]]
    ELSE EntryAt(items[path[1]][2].items, Tail(path))

\* Depth-first order of two paths: the first entry number that differs
\* decides.
Before(p1, p2) ==
    \E k \in 1..Len(p1) :
        /\ k <= Len(p2)
        /\ p1[k] < p2[k]
        /\ \A j \in 1..(k - 1) : p1[j] = p2[j]

(***************************************************************************)
(* C5.  Flattening an outline returns exactly its string-valued entries as *)
(* (title, description) pairs in depth-first order: the leaves of a nested *)
(* object stand at the place of its entry, and its own title is no leaf.   *)
(* The outline {A: descA, B: {B1: descB1, B2: descB2}} gives               *)
(* [(A,descA), (B1,descB1), (B2,descB2)].                                  *)
(***************************************************************************)
C5_FlattenIsLeavesInOrder ==
    (ret # NoCall /\ ret.fn = "flatten" /\ json_loads(call.arg).value.type = "dict") =>
        LET items == json_loads(call.arg).value.items
            paths == LeafPaths(items)
            rank(path) == Cardinality({q \in paths : Before(q, path)}) + 1
        IN /\ ret.raised = "none"
           /\ Len(ret.value) = Cardinality(paths)
           /\ \A path \in paths :
                 ret.value[rank(path)] =
                     <<EntryAt(items, path)[1], EntryAt(items, path)[2].s>>
           /\ call.arg = ExampleOutline =>
                 ret.value = <<<<"A", "descA">>, <<"B1", "descB1">>, <<"B2", "descB2">>>>

\* The example outline has been flattened.
C5_Witness ==
    /\ call.fn = "flatten"
    /\ call.arg = ExampleOutline
    /\ ret # NoCall
    /\ Len(ret.value) = 3

(***************************************************************************)
(* More vocabulary.                                                        *)
(***************************************************************************)
\* The outline response has arrived (its statistics have been yielded).
OutlineReceived == Len(events) >= 2

\* The run is beyond lines 35-41.
PastParse == OutlineReceived /\ pc \notin {"y_structure", "run_parse"}

\* An object whose values are, recursively, strings or such objects.
RECURSIVE ExpectedShape(_)
ExpectedShape(j) ==
    /\ j.t = "object"
    /\ \A i \in 1..Len(j.members) :
          \/ j.members[i][2].t = "string"
          \/ ExpectedShape(j.members[i][2])

\* The generator is suspended: before its first step or at a yield.
Suspended ==
    ~pulling /\ pc \in {"start", "y_title", "y_structure", "y_total", "y_book"}

\* How many requests it takes to produce the events yielded so far.
RequestsNeeded ==
    IF Len(events) <= 2 THEN Len(events)
    ELSE IF events[Len(events)].type = "Book" THEN 2 + Len(todo)
    ELSE 2 + events[Len(events)].leaf

\* The cumulative events yielded during the pass of the j-th leaf.
EventsOfLeaf(j) ==
    Cardinality({i \in 1..Len(events) :
                    events[i].ref = "total_stats" /\ events[i].leaf = j})

(***************************************************************************)
(* C6 as stated.  An outline text that is not JSON, or not an object whose *)
(* values are recursively strings or such objects, fails the run: the run  *)
(* never gets beyond parsing and yields no Book.                           *)
(***************************************************************************)
C6_MalformedOutlineFails ==
    (PastParse /\ ~ExpectedShape(structure)) =>
        /\ pc = "failed"
        /\ NoBookEvent

(***************************************************************************)
(* C6 as amended.  An outline text that is not JSON fails the run with     *)
(* json.JSONDecodeError, and JSON text whose top-level value is not an     *)
(* object fails it with AttributeError; in both cases no Book is yielded.  *)
(* An object never fails the parsing step, whatever its values are.        *)
(***************************************************************************)
C6_UnparsableOutlineFails ==
    PastParse =>
        /\ structure.t = "invalid" =>
              (pc = "failed" /\ error = "JSONDecodeError" /\ NoBookEvent)
        /\ structure.t \notin {"invalid", "object"} =>
              (pc = "failed" /\ error = "AttributeError" /\ NoBookEvent)
        /\ structure.t = "object" => error \notin {"JSONDecodeError", "AttributeError"}

\* A top-level array has ended the run.
C6_Witness ==
    /\ structure = JArray
    /\ pc = "failed"
    /\ error = "AttributeError"
    /\ Len(events) = 2

(***************************************************************************)
(* C7.  Requests are issued on the consumer's demand only: none before the *)
(* first next(), never more events than calls of next(), and whenever the  *)
(* generator is suspended after its k-th event the requests issued are     *)
(* exactly those it took to produce events 1..k (title, outline, and the   *)
(* streams of the leaves up to the one the k-th event belongs to); while   *)
(* the consumer does not call next(), no request is issued and no stream   *)
(* is opened.                                                              *)
(***************************************************************************)
C7_RequestsOnDemand ==
    /\ [](/\ Len(events) <= pulls
          /\ pulls = 0 => requests = <<>>
          /\ Suspended =>
                /\ Len(events) = pulls
                /\ Len(requests) = RequestsNeeded
                /\ \A i \in 1..Len(requests) : requests[i] = ExpectedRequest(i))
    /\ [][~pulling => (requests' = requests /\ stream' = stream)]_vars

\* Suspended at a cumulative event of the first of three leaves: the
\* streams of the second and third have not been requested.
C7_Witness ==
    /\ Suspended
    /\ pc = "y_total"
    /\ Len(todo) = 3
    /\ idx = 1
    /\ Len(requests) = 3

(***************************************************************************)
(* C8.  During a leaf's pass one cumulative statistics event is yielded    *)
(* per chunk that carries a usage payload (the payload whose merge raises  *)
(* ends the run instead) and none for a chunk without usage; a stream that *)
(* never carries usage yields no event for its leaf, is drained normally   *)
(* and its section is stored in the Book with the text it delivered.       *)
(***************************************************************************)
C8_OneEventPerUsage ==
    \A j \in 1..Len(received) :
        /\ EventsOfLeaf(j) =
              Len(received[j].usages)
              - (IF error = "TypeError" /\ j = Len(received) THEN 1 ELSE 0)
        /\ (received[j].drained /\ j = Len(received)) =>
              /\ received[j].title \in DictKeys(book.sections)
              /\ DictGet(book.sections, received[j].title).content = received[j].text

\* A finished run whose first stream carried text but never usage and
\* whose second stream carried usage twice.
C8_Witness ==
    /\ pc = "done"
    /\ Len(received) = 2
    /\ received[1].usages = <<>>
    /\ received[1].text # <<>>
    /\ Len(received[2].usages) = 2
    /\ received[1].title \in DictKeys(book.sections)

(***************************************************************************)
(* C9 as stated.  Constructing BookGenerator with an empty or absent       *)
(* credential fails at construction.                                       *)
(***************************************************************************)
C9_ConstructorRejectsMissingKey ==
    (groq_client # "unset" /\ ~Truthy(api_key)) => groq_client = "failed"

(***************************************************************************)
(* C9 as amended.  The entry point main refuses an empty or absent         *)
(* credential with a ValueError before it constructs the BookGenerator and *)
(* before any request: main constructs one only with a non-empty key.      *)
(***************************************************************************)
C9_MainRejectsMissingKey ==
    main_pc \in {"raised", "construct"} =>
        /\ main_pc = "raised" <=> ~Truthy(api_key)
        /\ main_pc = "raised" =>
              (groq_client = "unset" /\ pc = "nogen" /\ requests = <<>>)

\* main has refused an empty credential.
C9_Witness ==
    /\ main_pc = "raised"
    /\ api_key = PyStr("")
    /\ groq_client = "unset"

(***************************************************************************)
(* GenerationStatistics.add on its own: an accumulator and three records   *)
(* A, B and C, merged in any order and any grouping.                       *)
(***************************************************************************)
AddTimes == {FloatOf(1), FloatOf(3), BigFloat(0)}

AddTokens == {1, 5}

AddRecords ==
    {GenerationStatistics(t, FloatAdd(t, t), n, n + 1, t) :
        t \in AddTimes, n \in AddTokens}

InitAdd ==
    /\ Idle
    /\ ret = NoCall
    /\ acc \in AddRecords \cup {ZeroStats}
    /\ \E A, B, C \in AddRecords : operands = <<A, B, C>>
    /\ call = [fn |-> "add", start |-> acc, operands |-> operands]

Without(seq, i) == SubSeq(seq, 1, i - 1) \o SubSeq(seq, i + 1, Len(seq))

\* acc.add(r) for a record r not merged yet.
merge_into_acc ==
    /\ call.fn = "add"
    /\ \E i \in 1..Len(operands) :
          /\ acc' = add(acc, operands[i]).self
          /\ operands' = Without(operands, i)
    /\ UNCHANGED <<run_vars, call, ret>>

\* r.add(q) for two records not merged yet: q is merged into r first, and
\* r stands for both from then on.
merge_operands ==
    /\ call.fn = "add"
    /\ \E i, j \in 1..Len(operands) :
          /\ i # j
          /\ operands' = Without([operands EXCEPT ![i] = add(@, operands[j]).self], j)
    /\ UNCHANGED <<run_vars, call, ret, acc>>

NextAdd == merge_into_acc \/ merge_operands

SpecAdd == InitAdd /\ [][NextAdd]_vars

\* A, B and C merged into the accumulator one after the other.
MergedInOrder ==
    add(add(add(call.start, call.operands[1]).self,
            call.operands[2]).self,
        call.operands[3]).self

\* The values of one field over the accumulator's start and A, B, C.
FieldValues(f) == <<call.start[f]>> \o Column(call.operands, f)

RECURSIVE ExactTotal(_)
ExactTotal(fs) ==
    IF fs = <<>> THEN FloatOf(0) ELSE ExactSum(Head(fs), ExactTotal(Tail(fs)))

\* The exact sum of a time field is below 2^53: it and every partial sum
\* of these integer-valued times are floats, so no addition rounds.
SumIsExact(f) == DroppedBits(ExactTotal(FieldValues(f))) = 0

TimeFields == {"input_time", "output_time", "total_time"}

TokenFields == {"input_tokens", "output_tokens"}

(***************************************************************************)
(* C10 as stated.  Once A, B and C are all merged, in whatever order and   *)
(* grouping, the accumulator has the same five totals as when they are     *)
(* merged one after the other.                                             *)
(***************************************************************************)
C10_AnyOrderSameTotals ==
    (call.fn = "add" /\ operands = <<>>) =>
        \A f \in TimeFields \cup TokenFields : acc[f] = MergedInOrder[f]

(***************************************************************************)
(* C10 as amended.  Once A, B and C are all merged, in whatever order and  *)
(* grouping, each token total is the sum of the merged values, and so is   *)
(* each time total when no addition can round (integer-valued times whose  *)
(* exact sum is below 2^53); otherwise a time total depends on the order   *)
(* and grouping through floating-point rounding.                           *)
(***************************************************************************)
C10_AnyOrderSameExactTotals ==
    (call.fn = "add" /\ operands = <<>>) =>
        /\ \A f \in TokenFields : acc[f] = SumInts(FieldValues(f))
        /\ \A f \in TimeFields :
              SumIsExact(f) => acc[f] = ExactTotal(FieldValues(f))

\* Three different records have been merged into a non-zero accumulator
\* and no time sum rounded.
C10_Witness ==
    /\ call.fn = "add"
    /\ operands = <<>>
    /\ call.start # ZeroStats
    /\ call.operands[1] # call.operands[2]
    /\ call.operands[2] # call.operands[3]
    /\ call.operands[1] # call.operands[3]
    /\ \A f \in TimeFields : SumIsExact(f)
    /\ acc.total_time = ExactTotal(FieldValues("total_time"))
    /\ acc.input_tokens = SumInts(FieldValues("input_tokens"))

(***************************************************************************)
(* Python true division, tokens / time (models.py:53, 56).  The quotient   *)
(* of an int n and a float t is the double nearest to n / t; it is kept as *)
(* a binary fraction [sig, exp] of value sig * 2^exp, sig a two-limb pair  *)
(* of at most 53 bits (or 2^53 after a carry of the rounding).             *)
(***************************************************************************)
BinaryFraction(sig, exp) == [sig |-> sig, exp |-> exp]

\* The value 0: the int 0 of the else branch and the float 0.0 alike.
ZeroFraction == BinaryFraction(FloatOf(0), 0)

\* a <= b on two-limb values.
LimbLeq(a, b) == a[1] < b[1] \/ (a[1] = b[1] /\ a[2] <= b[2])

\* a - b on two-limb values, for b <= a.
LimbSub(a, b) ==
    IF a[2] >= b[2] THEN <<a[1] - b[1], a[2] - b[2]>>
    ELSE <<a[1] - b[1] - 1, a[2] + Limb - b[2]>>

\* Long division of a remainder r by t, both two-limb values: one more bit
\* of the quotient per step, until the remainder is 0 or the significand,
\* of n bits so far, is full.
RECURSIVE DivBits(_, _)
DivBits(d, t) ==
    IF d.r = FloatOf(0) \/ d.n = MantissaBits THEN d
    ELSE LET twice == ExactSum(d.r, d.r)
             bit   == IF LimbLeq(t, twice) THEN 1 ELSE 0
         IN DivBits([sig |-> ExactSum(ExactSum(d.sig, d.sig), <<0, bit>>),
                     n   |-> IF d.n > 0 \/ bit = 1 THEN d.n + 1 ELSE 0,
                     r   |-> IF bit = 1 THEN LimbSub(twice, t) ELSE twice,
                     exp |-> d.exp - 1], t)

\* The integer part of n / t, for an int n >= 0 and a two-limb t > 0; a t
\* of 2^30 or more is more than half of any int the model holds.
IntegerPart(n, t) ==
    IF t[1] = 0 THEN n \div t[2]
    ELSE IF LimbLeq(t, FloatOf(n)) THEN 1 ELSE 0

\* n / t for an int n >= 0 and a float t: TypeError when t is None,
\* ZeroDivisionError when t is 0, else the correctly rounded quotient.
TrueDiv(n, t) ==
    IF t = NoneVal THEN [raised |-> "TypeError", value |-> ZeroFraction]
    ELSE IF t = FloatOf(0) THEN [raised |-> "ZeroDivisionError", value |-> ZeroFraction]
    ELSE LET q0 == IntegerPart(n, t)
             r0 == IF t[1] = 0 THEN <<0, n % t[2]>>
                   ELSE IF q0 = 1 THEN LimbSub(FloatOf(n), t) ELSE FloatOf(n)
             d  == DivBits([sig |-> FloatOf(q0), n |-> BitLen(q0),
                            r |-> r0, exp |-> 0], t)
             twice == ExactSum(d.r, d.r)
             up == ExactSum(d.sig, <<0, 1>>)
             q  == IF d.r = FloatOf(0) \/ ~LimbLeq(t, twice) THEN d.sig
                   ELSE IF twice # t THEN up
                   ELSE IF d.sig[2] % 2 = 1 THEN up ELSE d.sig
         IN [raised |-> "none", value |-> BinaryFraction(q, d.exp)]

\* A mutation of the guard: the time is taken to be non-zero always.
NotZeroAlways(t) == TRUE

\* "x != 0" on a float or None: None != 0 is True.
NotZero(t) == t # FloatOf(0)

\* "tokens / time if time != 0 else 0"
SpeedOf(tokens, time) ==
    IF NotZero(time) THEN TrueDiv(tokens, time)
    ELSE [raised |-> "none", value |-> ZeroFraction]

\* GenerationStatistics.get_input_speed (models.py:52-53)
get_input_speed(self) == SpeedOf(self.input_tokens, self.input_time)

\* GenerationStatistics.get_output_speed (models.py:55-56)
get_output_speed(self) == SpeedOf(self.output_tokens, self.output_time)

(***************************************************************************)
(* The methods of GenerationStatistics on their own: a record, a list of   *)
(* arguments that add is called with one after the other, and the two      *)
(* speeds read at any moment in between.                                   *)
(***************************************************************************)
\* Calls of add in one behaviour.
MaxMerges == 2

\* The input_time and output_time of a record with tokens: each is once
\* 0, a small time, 2^53 + 2 and None.
MethodTimes ==
    {<<FloatOf(0), FloatOf(3)>>, <<FloatOf(3), FloatOf(0)>>,
     <<BigFloat(2), NoneVal>>, <<NoneVal, BigFloat(2)>>}

\* Records the methods are called on: the zero record the program starts
\* from (generator.py:39), one with times and no tokens, and the records
\* with tokens.
MethodReceivers ==
    {ZeroStats, GenerationStatistics(FloatOf(3), FloatOf(3), 0, 0, FloatOf(0))}
    \cup {GenerationStatistics(p[1], p[2], 10, 10, FloatOf(0)) : p \in MethodTimes}

\* What add is called with: records, one of them with a time of None, one
\* with a time whose double is above 2^53, and values of other types.
AddArguments ==
    {GenerationStatistics(FloatOf(3), FloatOf(4), 10, 7, FloatOf(7)),
     GenerationStatistics(FloatOf(4), FloatOf(3), 7, 10, BigFloat(2)),
     GenerationStatistics(FloatOf(0), FloatOf(3), 1, 0, FloatOf(3)),
     GenerationStatistics(FloatOf(3), NoneVal, 10, 7, FloatOf(7)),
     PyStr("stats"), PyOther("NoneType")}

RECURSIVE ArgumentLists(_)
ArgumentLists(n) ==
    IF n = 0 THEN {<<>>}
    ELSE ArgumentLists(n - 1) \cup
         {Append(l, a) : l \in {m \in ArgumentLists(n - 1) : Len(m) = n - 1},
                         a \in AddArguments}

InitStats ==
    /\ Idle
    /\ ret = NoCall
    /\ acc \in MethodReceivers
    /\ operands \in ArgumentLists(MaxMerges)
    /\ call = [fn |-> "methods", start |-> acc, operands |-> operands]

\* acc.add(other) with the next argument of the list; an exception is the
\* caller's to handle, the record stays as the failed call left it.
call_add ==
    /\ call.fn = "methods"
    /\ operands # <<>>
    /\ LET merged == add(acc, Head(operands))
       IN /\ acc' = merged.self
          /\ ret' = [fn |-> "add", raised |-> merged.raised,
                     self |-> acc, other |-> Head(operands)]
    /\ operands' = Tail(operands)
    /\ UNCHANGED <<run_vars, call>>

\* acc.get_input_speed()
call_get_input_speed ==
    /\ call.fn = "methods"
    /\ LET speed == get_input_speed(acc)
       IN ret' = [fn |-> "get_input_speed", raised |-> speed.raised,
                  self |-> acc, value |-> speed.value]
    /\ UNCHANGED <<run_vars, call, acc, operands>>

\* acc.get_output_speed()
call_get_output_speed ==
    /\ call.fn = "methods"
    /\ LET speed == get_output_speed(acc)
       IN ret' = [fn |-> "get_output_speed", raised |-> speed.raised,
                  self |-> acc, value |-> speed.value]
    /\ UNCHANGED <<run_vars, call, acc, operands>>

NextStats == call_add \/ call_get_input_speed \/ call_get_output_speed

SpecStats == InitStats /\ [][NextStats]_vars

\* Every time field of a record is a number.
TimesAreNumbers(r) == \A f \in TimeFields : r[f] # NoneVal

(***************************************************************************)
(* C11.  add with a GenerationStatistics argument leaves each of the five  *)
(* numeric fields at its old value plus the argument's value (the float    *)
(* sum for the times), so that the same record merged twice into a zero    *)
(* accumulator gives exactly twice each of its fields; add with a value of *)
(* any other type raises TypeError and leaves the receiver as it was.      *)
(***************************************************************************)
C11_AddSumsOrRefuses ==
    (ret # NoCall /\ ret.fn = "add") =>
        /\ ~isinstance(ret.other, "GenerationStatistics") =>
              (ret.raised = "TypeError" /\ acc = ret.self)
        /\ (/\ isinstance(ret.other, "GenerationStatistics")
            /\ TimesAreNumbers(ret.self)
            /\ TimesAreNumbers(ret.other)) =>
              /\ ret.raised = "none"
              /\ acc.model_name = ret.self.model_name
              /\ \A f \in TokenFields : acc[f] = ret.self[f] + ret.other[f]
              /\ \A f \in TimeFields :
                    acc[f] = RoundHalfEven(ExactSum(ret.self[f], ret.other[f]))
        /\ (/\ call.start = ZeroStats
            /\ Len(call.operands) = 2
            /\ call.operands[1] = call.operands[2]
            /\ operands = <<>>
            /\ isinstance(ret.other, "GenerationStatistics")
            /\ TimesAreNumbers(ret.other)) =>
              /\ \A f \in TokenFields : acc[f] = 2 * ret.other[f]
              /\ \A f \in TimeFields : acc[f] = ExactSum(ret.other[f], ret.other[f])

\* A record with a time above 2^53 has been merged twice into the zero
\* accumulator.
C11_Witness ==
    /\ ret # NoCall
    /\ ret.fn = "add"
    /\ call.start = ZeroStats
    /\ Len(call.operands) = 2
    /\ call.operands[1] = call.operands[2]
    /\ operands = <<>>
    /\ ret.raised = "none"
    /\ ret.other.total_time = BigFloat(2)
    /\ acc.total_time = <<2^(MantissaBits - 29), 4>>
    /\ acc.input_tokens = 14

(***************************************************************************)
(* Arithmetic on two-limb values for stating what a quotient is.           *)
(***************************************************************************)
\* Natural numbers of any size, as the sequence of their digits in base
\* 2^15 = 32768, the lowest first.

\* The digits of a two-limb value.
Digits(v) == <<v[2] % 32768, v[2] \div 32768, v[1] % 32768, v[1] \div 32768>>

RECURSIVE LongAdd(_, _, _)
LongAdd(a, b, carry) ==
    IF a = <<>> /\ b = <<>> THEN (IF carry = 0 THEN <<>> ELSE <<carry>>)
    ELSE LET x == IF a = <<>> THEN 0 ELSE Head(a)
             y == IF b = <<>> THEN 0 ELSE Head(b)
             rest == LongAdd(IF a = <<>> THEN a ELSE Tail(a),
                             IF b = <<>> THEN b ELSE Tail(b),
                             (x + y + carry) \div 32768)
         IN <<(x + y + carry) % 32768>> \o rest

\* a * k for one digit k (or k = 2^15).
RECURSIVE LongTimesDigit(_, _, _)
LongTimesDigit(a, k, carry) ==
    IF a = <<>> THEN (IF carry = 0 THEN <<>> ELSE <<carry % 32768, carry \div 32768>>)
    ELSE <<(Head(a) * k + carry) % 32768>>
         \o LongTimesDigit(Tail(a), k, (Head(a) * k + carry) \div 32768)

RECURSIVE LongTimes(_, _)
LongTimes(a, b) ==
    IF b = <<>> THEN <<>>
    ELSE LongAdd(LongTimesDigit(a, Head(b), 0), <<0>> \o LongTimes(a, Tail(b)), 0)

\* a * 2^k
RECURSIVE LongShift(_, _)
LongShift(a, k) ==
    IF k >= 15 THEN <<0>> \o LongShift(a, k - 15) ELSE LongTimesDigit(a, 2^k, 0)

\* The digits without the zeros above the highest digit that is not 0.
RECURSIVE Trimmed(_)
Trimmed(a) ==
    IF a # <<>> /\ a[Len(a)] = 0 THEN Trimmed(SubSeq(a, 1, Len(a) - 1)) ELSE a

\* a <= b on trimmed digit sequences.
RECURSIVE TrimmedLeq(_, _)
TrimmedLeq(a, b) ==
    IF Len(a) # Len(b) THEN Len(a) < Len(b)
    ELSE IF a = <<>> THEN TRUE
    ELSE IF a[Len(a)] # b[Len(b)] THEN a[Len(a)] < b[Len(b)]
    ELSE TrimmedLeq(SubSeq(a, 1, Len(a) - 1), SubSeq(b, 1, Len(b) - 1))

LongLeq(a, b) == TrimmedLeq(Trimmed(a), Trimmed(b))

\* Number of significant bits of a two-limb value.
Bits(v) == IF v[1] = 0 THEN BitLen(v[2]) ELSE 30 + BitLen(v[1])

\* q is the double nearest to n / t, for an int n and a two-limb t: q * t is
\* within t / 2 units in q's last place of n, and q is n / t itself unless
\* it fills the significand.
IsQuotient(q, n, t) ==
    LET qt == LongTimes(Digits(q.sig), Digits(ExactSum(t, t)))
        nn == LongShift(Digits(FloatOf(n)), 1 - q.exp)
    IN /\ q.exp <= 0
       /\ LongLeq(qt, LongAdd(nn, Digits(t), 0))
       /\ LongLeq(nn, LongAdd(qt, Digits(t), 0))
       /\ \/ Trimmed(qt) = Trimmed(nn)
          \/ Bits(q.sig) = MantissaBits
          \/ q.sig = BigFloat(0)

(***************************************************************************)
(* C12.  get_input_speed returns 0 when input_time is 0 and the quotient   *)
(* input_tokens / input_time when it is another number; get_output_speed   *)
(* does the same with output_tokens and output_time; neither raises        *)
(* ZeroDivisionError, whatever the fields hold.                            *)
(***************************************************************************)
C12_SpeedsNeverDivideByZero ==
    (ret # NoCall /\ ret.fn \in {"get_input_speed", "get_output_speed"}) =>
        LET tokens == IF ret.fn = "get_input_speed"
                      THEN ret.self.input_tokens ELSE ret.self.output_tokens
            time   == IF ret.fn = "get_input_speed"
                      THEN ret.self.input_time ELSE ret.self.output_time
        IN /\ ret.raised # "ZeroDivisionError"
           /\ time = FloatOf(0) => (ret.raised = "none" /\ ret.value = ZeroFraction)
           /\ time \notin {FloatOf(0), NoneVal} =>
                 (ret.raised = "none" /\ IsQuotient(ret.value, tokens, time))

\* The output speed 10 / 3 of a record whose input_time is 0 while it has
\* input tokens.
C12_Witness ==
    /\ ret # NoCall
    /\ ret.fn = "get_output_speed"
    /\ ret.self.input_time = FloatOf(0)
    /\ ret.self.input_tokens = 10
    /\ ret.self.output_tokens = 10
    /\ ret.self.output_time = FloatOf(3)
    /\ ret.value = BinaryFraction(<<6990506, 715827883>>, 0 - 51)

(***************************************************************************)
(* Book.to_markdown (models.py:29-41) on its own.  The rendered text is a  *)
(* sequence of pieces of text, a section title being one piece.            *)
(***************************************************************************)
\* "#" * level
RECURSIVE Hashes(_)
Hashes(level) == IF level = 0 THEN <<>> ELSE <<"#">> \o Hashes(level - 1)

\* A mutation of process_section: a subsection is rendered at the level of
\* its parent.
RECURSIVE ProcessSectionSameLevel(_, _)
RECURSIVE ProcessSubsectionsSameLevel(_, _)
ProcessSubsectionsSameLevel(items, level) ==
    IF items = <<>> THEN <<>>
    ELSE ProcessSectionSameLevel(Head(items)[2], level)
         \o ProcessSubsectionsSameLevel(Tail(items), level)

ProcessSectionSameLevel(section_, level) ==
    Hashes(level) \o <<" ", section_.title, "\n">> \o section_.content \o <<"\n", "\n">>
    \o ProcessSubsectionsSameLevel(section_.subsections, level)

RECURSIVE process_section(_, _)
RECURSIVE ProcessSubsections(_, _)
\* Lines 34-35: the loop over section.subsections.values().
ProcessSubsections(items, level) ==
    IF items = <<>> THEN <<>>
    ELSE process_section(Head(items)[2], level + 1)
         \o ProcessSubsections(Tail(items), level)

\* Lines 32-36: the heading, the content, a blank line, the subsections.
process_section(section_, level) ==
    Hashes(level) \o <<" ", section_.title, "\n">> \o section_.content \o <<"\n", "\n">>
    \o ProcessSubsections(section_.subsections, level)

\* Lines 38-39: the loop over self.sections.values().
RECURSIVE ProcessSections(_)
ProcessSections(items) ==
    IF items = <<>> THEN <<>>
    ELSE process_section(Head(items)[2], 1) \o ProcessSections(Tail(items))

\* Book.to_markdown
to_markdown(self) ==
    <<"#", " ">> \o self.title \o <<"\n", "\n">> \o ProcessSections(self.sections)

\* Sections of a rendered Book, subsections included.
MaxSections == 3

SectionKeys == {"S", "U"}

SectionContents == {<<>>, <<"C">>}

\* The dicts of sections, keyed by title, that hold at most k sections.
RECURSIVE SectionDicts(_)
SectionDicts(k) ==
    IF k = 0 THEN {<<>>}
    ELSE {<<>>} \cup
         UNION {{m \in {<<<<key, Section(key, c, sub)>>>> \o rest :
                            key \in SectionKeys, c \in SectionContents,
                            sub \in SectionDicts(i - 1),
                            rest \in SectionDicts(k - i)} :
                    m[1][1] \notin DictKeys(Tail(m))} :
                i \in 1..k}

RenderBooks == {Book(<<"T">>, sections) : sections \in SectionDicts(MaxSections)}

InitRender ==
    /\ Idle
    /\ call \in {[fn |-> "to_markdown", self |-> b] : b \in RenderBooks}
    /\ ret = NoCall
    /\ acc = Unbound
    /\ operands = <<>>

\* book.to_markdown()
call_to_markdown ==
    /\ call.fn = "to_markdown"
    /\ ret = NoCall
    /\ ret' = [fn |-> "to_markdown", value |-> to_markdown(call.self)]
    /\ UNCHANGED <<run_vars, call, acc, operands>>

NextRender == call_to_markdown

SpecRender == InitRender /\ [][NextRender]_vars

\* The places of the sections of a dict, subsections included, each as the
\* path of entry numbers that leads to it.
RECURSIVE SectionPaths(_)
SectionPaths(items) ==
    UNION {{<<i>>} \cup {<<i>> \o q : q \in SectionPaths(items[i][2].subsections)} :
           i \in 1..Len(items)}

RECURSIVE SectionAt(_, _)
SectionAt(items, path) ==
    IF Len(path) = 1 THEN items[path[1]][2]
    ELSE SectionAt(items[path[1]][2].subsections, Tail(path))

\* Pre-order: a section comes before its subsections, and these before its
\* next sibling.
PreOrder(p, q) ==
    \/ Len(p) < Len(q) /\ SubSeq(q, 1, Len(p)) = p
    \/ Before(p, q)

\* What one section contributes: its heading at the depth of its nesting,
\* its content, a blank line.
RenderedBlock(items, path) ==
    [i \in 1..Len(path) |-> "#"]
    \o <<" ", SectionAt(items, path).title, "\n">>
    \o SectionAt(items, path).content \o <<"\n", "\n">>

RECURSIVE Concat(_)
Concat(texts) == IF texts = <<>> THEN <<>> ELSE Head(texts) \o Concat(Tail(texts))

(***************************************************************************)
(* C13.  to_markdown gives the book title as a level-1 heading and a blank *)
(* line, then one block per section in pre-order (a section before its     *)
(* subsections, these before its next sibling): a heading whose depth is   *)
(* the section's nesting level, 1 at the top, then the content and a blank *)
(* line.  The Book T with the one section S of content C renders as        *)
(* "# T", blank line, "# S", "C", blank line.                              *)
(***************************************************************************)
C13_RenderIsPreOrder ==
    (ret # NoCall /\ ret.fn = "to_markdown") =>
        LET items == call.self.sections
            paths == SectionPaths(items)
            rank(p) == Cardinality({q \in paths : PreOrder(q, p)}) + 1
            nth(i) == CHOOSE p \in paths : rank(p) = i
        IN /\ ret.value =
                 <<"#", " ">> \o call.self.title \o <<"\n", "\n">>
                 \o Concat([i \in 1..Cardinality(paths) |-> RenderedBlock(items, nth(i))])
           /\ call.self = Book(<<"T">>, <<<<"S", Section("S", <<"C">>, <<>>)>>>>) =>
                 ret.value = <<"#", " ", "T", "\n", "\n", "#", " ", "S", "\n", "C", "\n", "\n">>

\* A Book whose first section has a subsection and a next sibling has been
\* rendered.
C13_Witness ==
    /\ ret # NoCall
    /\ ret.fn = "to_markdown"
    /\ Len(call.self.sections) = 2
    /\ Len(call.self.sections[1][2].subsections) = 1
    /\ ret.value = <<"#", " ", "T", "\n", "\n",
                     "#", " ", "S", "\n", "C", "\n", "\n",
                     "#", "#", " ", "U", "\n", "\n", "\n",
                     "#", " ", "U", "\n", "C", "\n", "\n">>

(***************************************************************************)
(* The prompts of the three requests (generator.py:74, 90-98, 134-142).    *)
(* A prompt is the sequence of its lines; a line is the pair of its fixed  *)
(* words and of the text put after them; a text is an atomic string.       *)
(***************************************************************************)
\* bool(text) of a str: "if additional_instructions:"
NonEmpty(text) == text # ""

\* prompt += "\n..." under "if text:"
LineIf(text, words) == IF NonEmpty(text) THEN <<<<words, text>>>> ELSE <<>>

\* _generate_title, line 74: the user message.
TitlePrompt(topic) ==
    <<<<"Generate a book title for the following topic: ", topic>>>>

\* A mutation of lines 93-94: the writing style is added without the test.
StructurePromptWithStyleAlways(topic, additional_instructions, writing_style, complexity_level, seed_content) ==
    <<<<"Write a comprehensive structure for a book about: ", topic>>>>
    \o LineIf(additional_instructions, "Additional instructions: ")
    \o <<<<"Writing style: ", writing_style>>>>
    \o LineIf(complexity_level, "Complexity level: ")
    \o LineIf(seed_content, "Seed content: ")

\* _generate_structure, lines 90-98.
StructurePrompt(topic, additional_instructions, writing_style, complexity_level, seed_content) ==
    <<<<"Write a comprehensive structure for a book about: ", topic>>>>
    \o LineIf(additional_instructions, "Additional instructions: ")
    \o LineIf(writing_style, "Writing style: ")
    \o LineIf(complexity_level, "Complexity level: ")
    \o LineIf(seed_content, "Seed content: ")

\* _generate_section, lines 134-142.
SectionPrompt(title_, description, additional_instructions, writing_style, complexity_level, seed_content) ==
    <<<<"Generate content for section: ", title_>>, <<"Description: ", description>>>>
    \o LineIf(additional_instructions, "Additional instructions: ")
    \o LineIf(writing_style, "Writing style: ")
    \o LineIf(complexity_level, "Complexity level: ")
    \o LineIf(seed_content, "Consider this seed content: ")

\* Arguments of generate_book: the defaults of lines 15-18, the values of
\* example.py:19-23, and the empty text for each optional one.
Topics == {"The history and impact of artificial intelligence", "Go"}

PromptArguments ==
    [topic                   : Topics,
     additional_instructions : {"", "Focus on recent developments and future implications"},
     writing_style           : {"", "Formal", "Academic"},
     complexity_level        : {"", "Intermediate", "Advanced"},
     seed_content            : {"", "AI has transformed various industries..."}]

OptionalArguments ==
    {"additional_instructions", "writing_style", "complexity_level", "seed_content"}

InitPrompt ==
    /\ Idle
    /\ call \in {[fn |-> "generate_book", args |-> a, leaf |-> <<"A", "descA">>] :
                    a \in PromptArguments}
    /\ ret = NoCall
    /\ acc = Unbound
    /\ operands = <<>>

\* self._generate_title(topic), line 25
build_title_prompt ==
    /\ call.fn = "generate_book"
    /\ ret' = [fn |-> "_generate_title", fixed |-> 1,
               prompt |-> TitlePrompt(call.args.topic)]
    /\ UNCHANGED <<run_vars, call, acc, operands>>

\* self._generate_structure(...), lines 29-31
build_structure_prompt ==
    /\ call.fn = "generate_book"
    /\ LET a == call.args
       IN ret' = [fn |-> "_generate_structure", fixed |-> 1,
                  prompt |-> StructurePrompt(a.topic, a.additional_instructions,
                                             a.writing_style, a.complexity_level,
                                             a.seed_content)]
    /\ UNCHANGED <<run_vars, call, acc, operands>>

\* self._generate_section(...), lines 42-49
build_section_prompt ==
    /\ call.fn = "generate_book"
    /\ LET a == call.args
       IN ret' = [fn |-> "_generate_section", fixed |-> 2,
                  prompt |-> SectionPrompt(call.leaf[1], call.leaf[2],
                                           a.additional_instructions, a.writing_style,
                                           a.complexity_level, a.seed_content)]
    /\ UNCHANGED <<run_vars, call, acc, operands>>

NextPrompt == build_title_prompt \/ build_structure_prompt \/ build_section_prompt

SpecPrompt == InitPrompt /\ [][NextPrompt]_vars

\* The lines a prompt has after its fixed first line or lines.
ExtraLines(r) == SubSeq(r.prompt, r.fixed + 1, Len(r.prompt))

\* The argument's text is the text of one of the extra lines.
Included(r, text) == \E i \in 1..Len(ExtraLines(r)) : ExtraLines(r)[i][2] = text

(***************************************************************************)
(* C14 as stated.  In the prompt of each of the three requests, each of    *)
(* the four optional arguments is an extra line if and only if it is not   *)
(* empty.                                                                  *)
(***************************************************************************)
C14_EveryPromptHasOptions ==
    (ret # NoCall /\ ret.fn \in {"_generate_title", "_generate_structure",
                                 "_generate_section"}) =>
        \A o \in OptionalArguments :
            Included(ret, call.args[o]) <=> call.args[o] # ""

(***************************************************************************)
(* C14 as amended.  In the prompts of the outline request and of a section *)
(* request, each of the four optional arguments is an extra line if and    *)
(* only if it is not empty, and there is no other extra line; the prompt   *)
(* of the title request is its one line with the topic, whatever the       *)
(* optional arguments are.                                                 *)
(***************************************************************************)
C14_OutlineAndSectionPromptsHaveOptions ==
    /\ (ret # NoCall /\ ret.fn \in {"_generate_structure", "_generate_section"}) =>
          /\ \A o \in OptionalArguments :
                Included(ret, call.args[o]) <=> call.args[o] # ""
          /\ Len(ExtraLines(ret)) =
                Cardinality({o \in OptionalArguments : call.args[o] # ""})
    /\ (ret # NoCall /\ ret.fn = "_generate_title") =>
          /\ ExtraLines(ret) = <<>>
          /\ ret.prompt[1][2] = call.args.topic

\* The outline prompt of a call with a writing style and seed content but
\* neither instructions nor a complexity level.
C14_Witness ==
    /\ ret # NoCall
    /\ ret.fn = "_generate_structure"
    /\ call.args.additional_instructions = ""
    /\ call.args.complexity_level = ""
    /\ ExtraLines(ret) = <<<<"Writing style: ", "Academic">>,
                           <<"Seed content: ", "AI has transformed various industries...">>>>

(***************************************************************************)
(* C15.  A run that completes has issued exactly: the title request, then  *)
(* the outline request, then one streamed section request per flattened    *)
(* leaf, in flattening order, with the leaf's title and description; none  *)
(* is missing, repeated or out of place.                                   *)
(***************************************************************************)
C15_RequestSequence ==
    Completed =>
        /\ Len(requests) = 2 + Len(todo)
        /\ requests[1].kind = "title" /\ ~requests[1].stream
        /\ requests[2].kind = "structure" /\ ~requests[2].stream
        /\ \A i \in 1..Len(todo) :
              requests[2 + i] = Request("section", TRUE, todo[i][1], todo[i][2])
        /\ todo = _flatten_structure(json_loads(structure).value).sections

\* A finished run over the three leaves of the example outline.
C15_Witness ==
    /\ pc = "done"
    /\ structure = ExampleOutline
    /\ Len(requests) = 5
    /\ requests[3].title = "A"
    /\ requests[4].title = "B1"
    /\ requests[5].title = "B2"

(***************************************************************************)
(* C16.  At most one request is open at any moment: every stream but the   *)
(* last one opened has been drained to its end, no request is issued while *)
(* a stream is open, and requests are issued one at a time, also when the  *)
(* consumer is handed events in the middle of a stream.                    *)
(***************************************************************************)
C16_OneRequestAtATime ==
    /\ [](/\ \A j \in 1..(Len(received) - 1) : received[j].drained
          /\ stream = "open" =>
                (received # <<>> /\ ~received[Len(received)].drained)
          /\ pc \in {"run_title", "run_structure", "run_parse", "open"} =>
                stream # "open")
    /\ [][requests' # requests =>
            /\ Len(requests') = Len(requests) + 1
            /\ stream # "open"
            /\ \A j \in 1..Len(received) : received[j].drained]_vars

\* The consumer holds an event of the second stream, which is still open;
\* the first stream delivered an event too and is drained.
C16_Witness ==
    /\ pc = "y_total"
    /\ ~pulling
    /\ idx = 2
    /\ stream = "open"
    /\ Len(received) = 2
    /\ received[1].drained
    /\ received[1].usages # <<>>
    /\ ~received[2].drained

(***************************************************************************)
(* C17.  The content of the section being filled is, at every moment and   *)
(* so when its stream is drained, the text fragments its stream has        *)
(* delivered so far, joined in the order of their arrival; the only str    *)
(* among the events is the title progress, so no text fragment is ever     *)
(* handed to the consumer.                                                 *)
(***************************************************************************)
C17_ContentIsFragmentsInOrder ==
    /\ (received # <<>> /\ Len(received) = Len(requests) - 2) =>
          /\ section.title = received[Len(received)].title
          /\ section.content = received[Len(received)].text
    /\ \A i \in 1..Len(events) :
          /\ events[i].type \in {"str", "GenerationStatistics", "Book"}
          /\ events[i].type = "str" =>
                (i = 1 /\ events[i].seen = Announcement \o title)

\* A stream delivered "a", an empty fragment and "b", and is drained.
C17_Witness ==
    /\ Len(received) = 1
    /\ received[1].drained
    /\ chunks_read = 3
    /\ section.content = <<"a", "b">>
    /\ Len(events) >= 3

(***************************************************************************)
(* C18.  A cumulative statistics event is a snapshot: the object the       *)
(* consumer was handed still has, after any later step of the run, the     *)
(* field values it had when it was yielded.                                *)
(***************************************************************************)
C18_EventsAreSnapshots ==
    \A i \in 1..Len(events) :
        events[i].ref = "total_stats" => events[i].seen = total_stats

(***************************************************************************)
(* C19.  A section is stored in the Book only once its stream is drained,  *)
(* the content stored under a title is never changed by a later step, and  *)
(* the Book is not yielded before every leaf has been stored.              *)
(***************************************************************************)
C19_StoredSectionsAreFrozen ==
    /\ [](book.type = "Book" =>
            /\ \A k \in DictKeys(book.sections) :
                  \E j \in 1..Len(received) :
                      /\ received[j].drained
                      /\ received[j].title = k
                      /\ DictGet(book.sections, k).content = received[j].text
            /\ ~NoBookEvent =>
                  (/\ Len(received) = Len(todo)
                   /\ \A j \in 1..Len(received) : received[j].drained))
    /\ [][book.type = "Book" =>
            \A k \in DictKeys(book.sections) :
                /\ k \in DictKeys(book'.sections)
                /\ DictGet(book'.sections, k).content = DictGet(book.sections, k).content]_vars

\* Every field of every usage payload received so far is a number.
PayloadsAreNumbers ==
    \A j \in 1..Len(received) : \A i \in 1..Len(received[j].usages) :
        /\ received[j].usages[i].prompt_time # NoneVal
        /\ received[j].usages[i].completion_time # NoneVal
        /\ received[j].usages[i].total_time # NoneVal

\* The places of the cumulative statistics events among the events.
CumulativeEvents == {i \in 1..Len(events) : events[i].ref = "total_stats"}

(***************************************************************************)
(* C20.  When the fields of all usage payloads are numbers (they are not   *)
(* negative), each of the five fields never decreases from one cumulative  *)
(* statistics event to the next, and the last cumulative event is the      *)
(* field-wise sum of all usage payloads that the section streams of the    *)
(* run have delivered.                                                     *)
(***************************************************************************)
C20_TotalsGrowToTheSum ==
    PayloadsAreNumbers =>
        /\ \A i, j \in CumulativeEvents :
              i < j =>
                  /\ \A f \in TokenFields : events[i].seen[f] <= events[j].seen[f]
                  /\ \A f \in TimeFields : LimbLeq(events[i].seen[f], events[j].seen[f])
        /\ CumulativeEvents # {} =>
              LET last == CHOOSE i \in CumulativeEvents :
                              \A j \in CumulativeEvents : j <= i
                  all  == StatsOfUsages(UsagesOfStreams(Len(received)))
              IN /\ Cardinality(CumulativeEvents) = Len(all)
                 /\ \A f \in TokenFields :
                       events[last].seen[f] = SumInts(Column(all, f))
                 /\ \A f \in TimeFields :
                       events[last].seen[f] = ExactTotal(Column(all, f))

\* A finished run whose two streams delivered three usage payloads.
C20_Witness ==
    /\ pc = "done"
    /\ PayloadsAreNumbers
    /\ Len(received) = 2
    /\ Len(received[1].usages) = 1
    /\ Len(received[2].usages) = 2
    /\ events[5].seen.total_time = FloatOf(27)
    /\ events[5].seen.output_tokens = 6
    /\ events[3].seen.total_time = FloatOf(9)

====
